---- MODULE Spec2Model ----
(***************************************************************************)
(* A model of the packet stream (ssb/packet_stream.py) and of the MuxRPC   *)
(* layer built on it (ssb/muxrpc.py).                                      *)
(*                                                                         *)
(* One PacketStream over one transport.  The transport is the mocked SHS   *)
(* socket of the test suite: a list of incoming chunks that read() pops    *)
(* (raising StopAsyncIteration when the list is empty) and a list of       *)
(* outgoing writes.  Bytes are strings; a 9-byte header is kept as the     *)
(* record of its three unpacked fields.                                    *)
(*                                                                         *)
(* PacketStream.read() awaits only inside _read() (the transport reads);   *)
(* Queue.put on an unbounded queue and Event.set never suspend, so the     *)
(* rest of read() runs without interleaving and one read() is one action.  *)
(* PacketStream.send() holds no await at all.                              *)
(***************************************************************************)
EXTENDS Integers, Sequences, FiniteSets, TLC

\* ---------------------------------------------------------------- bounds
\* Number of direct PacketStream.send() calls of the application.
MaxSends == 3
\* Number of sends made through MuxRPC: call() and the facades' send().
MaxCalls == 2
\* Number of PacketStream.read() calls.
MaxReads == 2
\* Number of calls and facade sends made by concurrent tasks.
MaxTaskOps == 3

\* Most stop() calls made on one handler in the handler specification.
MaxStops == 2

\* Most messages one facade's get_response() calls return.
MaxResponses == 2

\* Most feed messages constructed.
MaxMessages == 3

\* ------------------------------------------------------------ python data
None == [py |-> "None"]

NameAbsent == [kind |-> "absent", s |-> "", segs |-> <<>>]
NameStr(s) == [kind |-> "str", s |-> s, segs |-> <<>>]
NameList(segs) == [kind |-> "list", s |-> "", segs |-> segs]

\* A JSON object, reduced to what the code looks at: its "name", "message"
\* and "type" members ("" when absent).
Dict(name, message, type) == [py |-> "dict", name |-> name, message |-> message, type |-> type]
PyTrue == [py |-> "bool", val |-> TRUE]
PyStr(s) == [py |-> "str", s |-> s]
PyBytes(b) == [py |-> "bytes", b |-> b]

DataBody == Dict(NameAbsent, "", "")
ErrorBody == Dict(NameStr("Error"), "boom", "")
Envelope(type) == Dict(NameList(<<"whoami">>), "", type)
\* The request a peer makes of the method blobs.get, and its JSON text.
BlobsGetBody == Dict(NameList(<<"blobs", "get">>), "", "async")
BlobsGetText == "{\"name\":[\"blobs\",\"get\"],\"args\":[],\"type\":\"async\"}"
\* A request whose name is the empty list, and its JSON text.
EmptyNameBody == Dict(NameList(<<>>), "", "async")
EmptyNameText == "{\"name\":[],\"args\":[],\"type\":\"async\"}"

CallTypes == {"sync", "async", "source", "sink", "duplex"}
\* A type_ argument of call() that is none of them.
UnknownType == "bogus"

\* PSMessageType
BUFFER == 0
TEXT == 1
JSON == 2

\* simplejson.dumps(body).encode("utf-8") for the dicts of the model.
JsonDumps(body) ==
    CASE body = DataBody -> "{\"id\": \"@abc\"}"
      [] body = ErrorBody -> "{\"name\": \"Error\", \"message\": \"boom\"}"
      [] body = Envelope("sync") -> "{\"name\": [\"whoami\"], \"args\": [], \"type\": \"sync\"}"
      [] body = Envelope("async") -> "{\"name\": [\"whoami\"], \"args\": [], \"type\": \"async\"}"
      [] body = Envelope("source") -> "{\"name\": [\"whoami\"], \"args\": [], \"type\": \"source\"}"
      [] body = Envelope("sink") -> "{\"name\": [\"whoami\"], \"args\": [], \"type\": \"sink\"}"
      [] body = Envelope("duplex") -> "{\"name\": [\"whoami\"], \"args\": [], \"type\": \"duplex\"}"
      [] body = Envelope(UnknownType) -> "{\"name\": [\"whoami\"], \"args\": [], \"type\": \"bogus\"}"

\* The byte strings simplejson.loads accepts, among those of the model.
JsonTexts ==
    {"true", "{\"id\":\"@abc\"}", "{\"name\":\"Error\",\"message\":\"boom\"}", BlobsGetText,
     EmptyNameText}
    \cup {JsonDumps(b) : b \in {DataBody, ErrorBody} \cup {Envelope(t) : t \in CallTypes}}

\* simplejson.loads(body); defined on JsonTexts, raises elsewhere.
JsonLoads(raw) ==
    CASE raw = "true" -> PyTrue
      [] raw \in {"{\"id\":\"@abc\"}", JsonDumps(DataBody)} -> DataBody
      [] raw \in {"{\"name\":\"Error\",\"message\":\"boom\"}", JsonDumps(ErrorBody)} -> ErrorBody
      [] raw = BlobsGetText -> BlobsGetBody
      [] raw = EmptyNameText -> EmptyNameBody
      [] OTHER -> CHOOSE t \in {Envelope(c) : c \in CallTypes} : JsonDumps(t) = raw

\* ---------------------------------------------------------------- PSMessage
PSMessage(type_, body, stream, end_err, req) ==
    [py |-> "PSMessage", type |-> type_, body |-> body, stream |-> stream,
     end_err |-> end_err, req |-> req]

\* bool(x) of a value read from a queue, a slot or read(): only None is false;
\* PSMessage defines neither __bool__ nor __len__.
Truthy(x) == x # None

\* PSMessage.data
data(msg) ==
    IF msg.body = PyTrue THEN "true"
    ELSE IF msg.type = TEXT THEN msg.body.s
    ELSE IF msg.type = JSON THEN JsonDumps(msg.body)
    ELSE msg.body.b

\* The exception PSMessage.from_header_body raises, "none" when it returns.
DecodeError(flags, body) ==
    IF flags % 4 = 3 THEN "ValueError"
    ELSE IF flags % 4 = JSON /\ body \notin JsonTexts THEN "JSONDecodeError"
    ELSE "none"

\* Fault: the stream flag is taken from every bit above bit 2.
from_header_body_NoMask(flags, req, body) ==
    LET type_ == flags % 4
        decoded_body == IF type_ = TEXT THEN PyStr(body)
                        ELSE IF type_ = JSON THEN JsonLoads(body)
                        ELSE PyBytes(body)
    IN PSMessage(type_, decoded_body, flags \div 8 # 0, (flags \div 4) % 2 = 1, req)

\* PSMessage.from_header_body
from_header_body(flags, req, body) ==
    LET type_ == flags % 4
        decoded_body == IF type_ = TEXT THEN PyStr(body)
                        ELSE IF type_ = JSON THEN JsonLoads(body)
                        ELSE PyBytes(body)
    IN PSMessage(type_, decoded_body, (flags \div 8) % 2 = 1, (flags \div 4) % 2 = 1, req)

\* --------------------------------------------------------------- transport
\* One transport read or write: a packed header or a run of body bytes.
Hdr(flags, length, req) ==
    [kind |-> "hdr", flags |-> flags, length |-> length, req |-> req, bytes |-> ""]
Data(bytes) == [kind |-> "data", flags |-> 0, length |-> 0, req |-> 0, bytes |-> bytes]

\* b"\x00" * 9 unpacks to (0, 0, 0).
ZeroHeader == Hdr(0, 0, 0)
\* b""
EmptyRead == Data("")

ChunkSize == 4096

\* ceil(length / 4096)
n_packets(length) == (length + ChunkSize - 1) \div ChunkSize

VARIABLES
    req_counter,   \* PacketStream.req_counter
    event_map,     \* PacketStream._event_map: id -> index in handlers (the time is dropped)
    handlers,      \* every PSHandler created so far, in creation order
    connected,     \* PacketStream._connected
    is_connected,  \* connection.is_connected
    input,         \* the chunks the transport will return from read()
    output,        \* the chunks written to the transport
    facades,       \* the MuxRPC handlers returned by MuxRPCAPI.call()
    nreads,        \* number of read() calls made
    surfaced,      \* history: the messages PacketStream.__anext__ returned
    minted,        \* history: the ids send() took from req_counter
    replied,       \* history: minted ids whose end/error reply was read
    loop,          \* the main loop: "running", "ended" (StopAsyncIteration) or "failed"
    last,          \* history: how the last operation ended
    api,           \* the MuxRPCAPI: its handlers table and its process_messages() task
    codec,         \* a message, the bytes _write packs for it and what they decode to
    peers,         \* two MuxRPCAPI instances, each bound to a PacketStream of its own
    messages       \* the feed Message objects constructed so far, in creation order

vars == <<req_counter, event_map, handlers, connected, is_connected, input, output,
          facades, nreads, surfaced, minted, replied, loop, last, api, codec, peers,
          messages>>

\* How the last operation ended.  exc: the exception it raised ("none" if
\* none); what: for a read(), the path it took; for another operation that
\* raised, its name; "" otherwise; msg: the message _read() returned, if any.
Last(exc, what, msg) == [exc |-> exc, what |-> what, msg |-> msg]

\* MuxRPCAPI.__init__: no callback defined.  task, exc and dispatched follow
\* process_messages(): whether it is running, has returned or has failed, the
\* exception that ended it, and the requests handed to callbacks so far.
MuxRPCAPI == [handlers |-> {}, task |-> "running", exc |-> "none", dispatched |-> <<>>]

\* Nothing received yet.
NoGot == [msg |-> None, what |-> "", exc |-> "none"]

\* Nothing encoded yet.  msg: the message encoded; wire: the transport writes
\* made for it, the header as its nine bytes; out, exc: what
\* from_header_body returns or raises for the header and the body written;
\* got: what _read rebuilds from the writes, each delivered as one read; alt:
\* what from_header_body returns or raises for the same header with some of
\* the bits 4-7 of its flags byte set.
NoCodec ==
    [msg |-> None, wire |-> <<>>, out |-> None, exc |-> "none", got |-> NoGot, alt |-> None]

\* ---------------------------------------------------------------- handlers
\* PSStreamHandler.__init__ / PSRequestHandler.__init__; recv and stops are
\* history: the messages passed to process() and the number of stop() calls.
PSStreamHandler(req) ==
    [kind |-> "stream", req |-> req, queue |-> <<>>, msg |-> None, event |-> FALSE,
     recv |-> <<>>, stops |-> 0]
PSRequestHandler(req) ==
    [kind |-> "request", req |-> req, queue |-> <<>>, msg |-> None, event |-> FALSE,
     recv |-> <<>>, stops |-> 0]

\* Fault: PSStreamHandler.process puts the message at the head of the queue.
process_Front(h, msg) ==
    IF h.kind = "stream"
    THEN [h EXCEPT !.queue = <<msg>> \o @, !.recv = Append(@, msg)]
    ELSE [h EXCEPT !.msg = msg, !.event = TRUE, !.recv = Append(@, msg)]

\* Fault: PSStreamHandler.process queues the message twice.
process_Twice(h, msg) ==
    IF h.kind = "stream"
    THEN [h EXCEPT !.queue = @ \o <<msg, msg>>, !.recv = Append(@, msg)]
    ELSE [h EXCEPT !.msg = msg, !.event = TRUE, !.recv = Append(@, msg)]

\* Fault: PSRequestHandler.process stores the message and does not set the
\* event.
process_NoEvent(h, msg) ==
    IF h.kind = "stream"
    THEN [h EXCEPT !.queue = Append(@, msg), !.recv = Append(@, msg)]
    ELSE [h EXCEPT !.msg = msg, !.recv = Append(@, msg)]

\* PSStreamHandler.process / PSRequestHandler.process
process(h, msg) ==
    IF h.kind = "stream"
    THEN [h EXCEPT !.queue = Append(@, msg), !.recv = Append(@, msg)]
    ELSE [h EXCEPT !.msg = msg, !.event = TRUE, !.recv = Append(@, msg)]

\* Fault: PSStreamHandler.stop puts no sentinel in the queue.
stop_NoSentinel(h) ==
    IF h.kind = "stream"
    THEN [h EXCEPT !.stops = @ + 1]
    ELSE [h EXCEPT !.event = TRUE, !.stops = @ + 1]

\* Fault: stop() resets the handler before ending it: the queue is emptied and
\* the stored message dropped.
stop_Reset(h) ==
    IF h.kind = "stream"
    THEN [h EXCEPT !.queue = <<None>>, !.stops = @ + 1]
    ELSE [h EXCEPT !.msg = None, !.event = TRUE, !.stops = @ + 1]

\* PSStreamHandler.stop / PSRequestHandler.stop
stop(h) ==
    IF h.kind = "stream"
    THEN [h EXCEPT !.queue = Append(@, None), !.stops = @ + 1]
    ELSE [h EXCEPT !.event = TRUE, !.stops = @ + 1]

\* PacketStream.__init__ of a further stream: the counter at 1 and nothing
\* pending; handlers and output are as the variables of the same names.
PacketStream ==
    [req_counter |-> 1, event_map |-> [k \in {} |-> 0], handlers |-> <<>>, output |-> <<>>]

\* A MuxRPCAPI as constructed (no callback, no connection) and the
\* PacketStream constructed beside it; a bound connection is a reference to
\* the PacketStream of an instance.
Peer == [api |-> MuxRPCAPI, connection |-> None, stream |-> PacketStream]

\* The two MuxRPCAPI instances.
PeerIds == {"a", "b"}
StreamOf(p) == [py |-> "PacketStream", of |-> p]

Init ==
    /\ req_counter = 1
    /\ event_map = [k \in {} |-> 0]
    /\ handlers = <<>>
    /\ connected = FALSE
    /\ is_connected = TRUE
    /\ input = <<>>
    /\ output = <<>>
    /\ facades = <<>>
    /\ nreads = 0
    /\ surfaced = <<>>
    /\ minted = <<>>
    /\ replied = {}
    /\ loop = "running"
    /\ last = Last("none", "", None)
    /\ api = MuxRPCAPI
    /\ codec = NoCodec
    /\ peers = [p \in PeerIds |-> Peer]
    /\ messages = <<>>

\* ------------------------------------------------------ PacketStream.send
\* The flags byte packed by _write.
HeaderFlags(msg) ==
    (IF msg.stream THEN 8 ELSE 0) + (IF msg.end_err THEN 4 ELSE 0) + msg.type

\* Fault: _write writes the body before the header.
_write_BodyFirst(out, msg) ==
    out \o <<Data(data(msg)), Hdr(HeaderFlags(msg), Len(data(msg)), msg.req)>>

\* PacketStream._write: two transport writes, the header and msg.data.
_write(out, msg) ==
    out \o <<Hdr(HeaderFlags(msg), Len(data(msg)), msg.req), Data(data(msg))>>

\* The req argument of send(): <<>> is None, <<r>> is r.
NoReq == <<>>

\* Fault: register_handler keeps the entry the key already has.
register_handler_KeepFirst(em, handler, hid) ==
    [k \in DOMAIN em \cup {handler.req} |-> IF k \in DOMAIN em THEN em[k] ELSE hid]

\* send(): req = self.req_counter when req is None.
UsedReq(reqOpt, counter) == IF reqOpt = NoReq THEN counter ELSE reqOpt[1]

\* Fault: send() builds a single-slot handler whatever stream is.
NewHandler_SingleSlot(stream, req, counter) == PSRequestHandler(counter)

\* send(): the handler is built from self.req_counter, not from req.
NewHandler(stream, req, counter) ==
    IF stream THEN PSStreamHandler(counter) ELSE PSRequestHandler(counter)

\* PacketStream.register_handler
register_handler(em, handler, hid) ==
    [k \in DOMAIN em \cup {handler.req} |-> IF k = handler.req THEN hid ELSE em[k]]

\* Fault: send() increments the counter whether or not it minted the id.
BumpCounter_Always(counter, update_counter) == counter + 1

\* Fault: minting an id moves the counter by two.
BumpCounter_Twice(counter, update_counter) ==
    IF update_counter THEN counter + 2 ELSE counter

\* send(): self.req_counter += 1 only if update_counter.
BumpCounter(counter, update_counter) == IF update_counter THEN counter + 1 ELSE counter

\* PacketStream.send, all of it; there is no is_connected test in it.
send(payload, msg_type, stream, end_err, reqOpt) ==
    LET update_counter == reqOpt = NoReq
        req == UsedReq(reqOpt, req_counter)
        msg == PSMessage(msg_type, payload, stream, end_err, req)
        handler == NewHandler(stream, req, req_counter)
    IN /\ output' = _write(output, msg)
       /\ handlers' = Append(handlers, handler)
       /\ event_map' = register_handler(event_map, handler, Len(handlers) + 1)
       /\ req_counter' = BumpCounter(req_counter, update_counter)
       /\ minted' = IF update_counter THEN Append(minted, req) ELSE minted

\* The direct send() calls of the application, as <<stream, end_err, req>>: a
\* one-shot request, the opening of a stream, a further frame of the stream
\* opened under id 1, and a one-shot reply to the peer's call 1.
SendArgs ==
    {<<FALSE, FALSE, NoReq>>, <<TRUE, FALSE, NoReq>>,
     <<TRUE, TRUE, <<1>>>>, <<FALSE, FALSE, <<-1>>>>}

\* A direct PacketStream.send() by the application.
Send(stream, end_err, reqOpt) ==
    /\ Len(handlers) < MaxSends
    /\ send(DataBody, JSON, stream, end_err, reqOpt)
    /\ last' = Last("none", "", None)
    /\ UNCHANGED <<api, codec, peers, messages, connected, is_connected, input, facades,
                   nreads, surfaced, replied, loop>>

\* ------------------------------------------------------------ MuxRPCAPI.call
\* _get_appropriate_api_handler: the facade kept for a call; yielded, state and
\* error are the consumer's side (what iteration has returned, how it ended,
\* and the message of the MuxRPCAPIException it raised); sent is history: the
\* headers written through the facade's send().
Facade(type_, hid, req) ==
    [type |-> type_, ps_handler |-> hid, req |-> req, yielded |-> <<>>, state |-> "open",
     error |-> "", sent |-> <<>>]

\* stream=type_ in {"sink", "source", "duplex"}
CallStream(type_) == type_ \in {"sink", "source", "duplex"}

\* Fault: call() does not look at is_connected.
call_NoCheck(type_) ==
    /\ send(Envelope(type_), JSON, CallStream(type_), FALSE, NoReq)
    /\ facades' = Append(facades, Facade(type_, Len(handlers) + 1, req_counter))
    /\ last' = Last("none", "", None)
    /\ UNCHANGED <<api, codec, peers, messages, connected, is_connected, input, nreads,
                   surfaced, replied, loop>>

\* MuxRPCAPI.call, all of it: the is_connected test, send(), and then
\* _get_appropriate_api_handler, which raises TypeError for a type that is
\* none of the five.
call(type_) ==
    IF ~is_connected
    THEN /\ last' = Last("Exception", "call", None)
         /\ UNCHANGED <<api, codec, peers, messages, req_counter, event_map, handlers,
                        connected, is_connected, input, output, facades, nreads, surfaced,
                        minted, replied, loop>>
    ELSE /\ send(Envelope(type_), JSON, CallStream(type_), FALSE, NoReq)
         /\ IF type_ \in CallTypes
            THEN /\ facades' = Append(facades, Facade(type_, Len(handlers) + 1, req_counter))
                 /\ last' = Last("none", "", None)
            ELSE /\ facades' = facades
                 /\ last' = Last("TypeError", "call", None)
         /\ UNCHANGED <<api, codec, peers, messages, connected, is_connected, input, nreads,
                        surfaced, replied, loop>>

\* A call() by the application.
Call(type_) ==
    /\ is_connected => Len(handlers) < MaxCalls
    /\ call(type_)

\* send() on a sink or duplex facade.  MuxRPCDuplexHandler lists the mixin
\* first and takes MuxRPCSinkHandlerMixin.send; MuxRPCSinkHandler lists
\* MuxRPCHandler first, whose send raises NotImplementedError.
sink_send(i, end) ==
    /\ facades[i].type \in {"sink", "duplex"}
    /\ IF facades[i].type = "sink"
       THEN /\ last' = Last("NotImplementedError", "send", None)
            /\ UNCHANGED <<req_counter, event_map, handlers, output, facades, minted>>
       ELSE /\ send(DataBody, JSON, TRUE, end, <<facades[i].req>>)
            /\ facades' = [facades EXCEPT ![i].sent = Append(@, output'[Len(output) + 1])]
            /\ last' = Last("none", "", None)
    /\ UNCHANGED <<api, codec, peers, messages, connected, is_connected, input, nreads,
                   surfaced, replied, loop>>

\* A send() on a facade by the application.
FacadeSend(i, end) ==
    /\ Len(handlers) < MaxCalls
    /\ sink_send(i, end)

\* call() and a facade's send() hold no await: a task runs each of them to its
\* end before the event loop lets another task run, so the interleavings of
\* several tasks are the orders in which whole calls and sends follow one
\* another.
TaskCall(type_) ==
    /\ Len(handlers) < MaxTaskOps
    /\ call(type_)

TaskSend(i, end) ==
    /\ Len(handlers) < MaxTaskOps
    /\ sink_send(i, end)

\* Fault: disconnect() also empties the pending table.
Disconnect_DropsPending ==
    /\ connected' = FALSE
    /\ is_connected' = FALSE
    /\ event_map' = [k \in {} |-> 0]
    /\ last' = Last("none", "", None)
    /\ UNCHANGED <<api, codec, peers, messages, req_counter, handlers, input, output,
                   facades, nreads, surfaced, minted, replied, loop>>

\* PacketStream.disconnect
Disconnect ==
    /\ connected' = FALSE
    /\ is_connected' = FALSE
    /\ last' = Last("none", "", None)
    /\ UNCHANGED <<api, codec, peers, messages, req_counter, event_map, handlers, input,
                   output, facades, nreads, surfaced, minted, replied, loop>>

\* ------------------------------------------------------- PacketStream._read
\* The bytes of a chunk; a header read where body bytes are expected is nine
\* bytes that are no JSON text.
BytesOf(chunk) == IF chunk.kind = "hdr" THEN "<9 bytes>" ELSE chunk.bytes

\* The for loop of _read: n more transport reads appended to body.  ok is
\* false when a read is empty or the transport raises StopAsyncIteration; both
\* paths close the connection and return None.
RECURSIVE ReadBody(_, _, _)
ReadBody(inp, n, body) ==
    IF n = 0 THEN [ok |-> TRUE, body |-> body, rest |-> inp]
    ELSE IF inp = <<>> THEN [ok |-> FALSE, body |-> body, rest |-> inp]
    ELSE IF BytesOf(Head(inp)) = "" THEN [ok |-> FALSE, body |-> body, rest |-> Tail(inp)]
    ELSE ReadBody(Tail(inp), n - 1, body \o BytesOf(Head(inp)))

\* Fault: _read never closes the connection.
ReadResult_NeverClose(msg, rest, close, exc, what) ==
    [msg |-> msg, rest |-> rest, close |-> FALSE, exc |-> exc, what |-> what]

\* What _read comes to: see _read below.
ReadResult(msg, rest, close, exc, what) ==
    [msg |-> msg, rest |-> rest, close |-> close, exc |-> exc, what |-> what]

\* `not header or header == b"\x00" * 9`
IsSentinel(header) == header = EmptyRead \/ header = ZeroHeader

\* PacketStream._read: the message or None, the input left, whether
\* connection.close() was called, the exception that escapes ("none" if none),
\* and which path was taken.
_read(inp) ==
    IF inp = <<>> THEN ReadResult(None, inp, TRUE, "none", "exhausted")
    ELSE LET header == Head(inp) IN
         IF IsSentinel(header)
         THEN ReadResult(None, Tail(inp), FALSE, "none",
                         IF header = ZeroHeader THEN "zero" ELSE "empty")
         ELSE IF header.kind = "data"
         THEN ReadResult(None, Tail(inp), FALSE, "struct.error", "malformed")
         ELSE LET b == ReadBody(Tail(inp), n_packets(header.length), "") IN
              IF ~b.ok THEN ReadResult(None, b.rest, TRUE, "none", "truncated")
              ELSE IF DecodeError(header.flags, b.body) # "none"
                   THEN ReadResult(None, b.rest, FALSE, DecodeError(header.flags, b.body),
                                   "malformed")
                   ELSE ReadResult(from_header_body(header.flags, header.req, b.body),
                                   b.rest, FALSE, "none", "frame")

\* -------------------------------------------------------- PacketStream.read
\* Fault: read() takes every frame with a non-zero req for a reply.
IsReply_NonZero(msg) == msg.req # 0

\* `msg.req is not None and msg.req < 0`
IsReply(msg) == msg.req < 0

\* Fault: read() looks up the id of the latest call, not the id of the frame.
ReplyKey_Newest(msg) == req_counter - 1

\* The key read() looks up in _event_map for a reply.
ReplyKey(msg) == -msg.req

\* `if msg.end_err:` guards handler.stop() and the del.
Ends(msg) == msg.end_err

\* Fault: read() stops the handler before it hands it the closing frame.
Routed_StopFirst(h, msg) == IF msg.end_err THEN process(stop(h), msg) ELSE process(h, msg)

\* Fault: on a closing frame read() stops the handler and does not hand it the
\* frame.
Routed_StopOnly(h, msg) == IF msg.end_err THEN stop(h) ELSE process(h, msg)

\* The handler after read() has routed msg to it: process, then stop on end_err.
Routed(h, msg) == IF Ends(msg) THEN stop(process(h, msg)) ELSE process(h, msg)

\* Fault: read() leaves the entry in place.
Del_Nothing(em, key) == em

\* del self._event_map[key]
Del(em, key) == [k \in DOMAIN em \ {key} |-> em[k]]

\* Fault: __anext__ tests msg.req > 0.
Surfaces_Positive(msg) == msg.req > 0

\* `msg.req is not None and msg.req >= 0` in __anext__
Surfaces(msg) == msg.req >= 0

\* One iteration of the loop of PacketStream.__anext__, with inp the chunks the
\* transport holds: one read(), then the tests on its result.
ReadFrom(inp) ==
    /\ nreads < MaxReads
    /\ nreads' = nreads + 1
    /\ LET r == _read(inp) IN
       /\ input' = r.rest
       /\ is_connected' = IF r.close THEN FALSE ELSE is_connected
       /\ IF r.exc # "none"
          THEN /\ last' = Last(r.exc, r.what, None)
               /\ loop' = "failed"
               /\ UNCHANGED <<event_map, handlers, surfaced, replied>>
          ELSE IF ~Truthy(r.msg)
          THEN /\ last' = Last("none", r.what, None)
               /\ loop' = "ended"
               /\ UNCHANGED <<event_map, handlers, surfaced, replied>>
          ELSE IF IsReply(r.msg)
          THEN IF ReplyKey(r.msg) \notin DOMAIN event_map
               THEN /\ last' = Last("KeyError", "reply", r.msg)
                    /\ loop' = "failed"
                    /\ UNCHANGED <<event_map, handlers, surfaced, replied>>
               ELSE LET key == ReplyKey(r.msg)
                        hid == event_map[key]
                    IN /\ handlers' = [handlers EXCEPT ![hid] = Routed(@, r.msg)]
                       /\ event_map' = IF Ends(r.msg) THEN Del(event_map, key)
                                       ELSE event_map
                       /\ replied' = IF Ends(r.msg) /\ key < req_counter
                                     THEN replied \cup {key} ELSE replied
                       /\ last' = Last("none", "reply", r.msg)
                       /\ loop' = "running"
                       /\ UNCHANGED surfaced
          ELSE /\ surfaced' = IF Surfaces(r.msg) THEN Append(surfaced, r.msg)
                              ELSE surfaced
               /\ last' = Last("none", "inbound", r.msg)
               /\ loop' = "running"
               /\ UNCHANGED <<event_map, handlers, replied>>
    /\ UNCHANGED <<codec, peers, messages, req_counter, connected, output, facades, minted>>

\* ------------------------------------------------------------------ the peer
DataText == "{\"id\":\"@abc\"}"
ErrorText == "{\"name\":\"Error\",\"message\":\"boom\"}"

\* The ids the peer's replies name (negated on the wire).
ReplyIds == {1, 2}
\* The req of the frames the peer sends on its own account.
InboundReqs == {0, 1}

\* A whole frame as the peer writes it: the header, then the body.
Frame(flags, req, body) == <<Hdr(flags, Len(body), req), Data(body)>>

\* The ends of input other than the exhaustion of the transport: nine zero
\* bytes, an empty read, and a frame cut after its header by an empty read.
Sentinels == {<<ZeroHeader>>, <<EmptyRead>>, <<Hdr(2, Len(DataText), -1), EmptyRead>>}

\* What the peer sends to a bare PacketStream: replies in a stream (0x0a), the
\* last of them with the end/error bit (0x0e), and frames of its own calls.
FeedItems ==
    {Frame(f, -n, DataText) : f \in {10, 14}, n \in ReplyIds}
    \cup {Frame(10, r, DataText) : r \in InboundReqs}
    \cup Sentinels

\* What the peer sends in answer to MuxRPC calls, as <<flags, body>>: JSON
\* (0x02), JSON in a stream (0x0a), the same with the end/error bit (0x0e), and
\* an error closing the exchange.
ReplyShapes ==
    {<<2, DataText>>, <<10, DataText>>, <<14, DataText>>, <<14, ErrorText>>}
RPCFeedItems ==
    {Frame(sh[1], -n, sh[2]) : sh \in ReplyShapes, n \in ReplyIds}

\* The loop's read() when the transport holds nothing more: the mocked socket
\* raises StopAsyncIteration.
Read == ReadFrom(input) /\ UNCHANGED api

\* MockSHSSocket.feed(item) and the loop's read() of what was fed.  The feed
\* touches the transport's input alone, which only read() looks at, so the two
\* are taken in one step.  Nothing arrives on a transport that was closed.
FeedRead(item) ==
    /\ is_connected
    /\ ReadFrom(input \o item)
    /\ UNCHANGED api

\* ------------------------------------------------------------- the consumers
\* Fault: check_message never raises.
IsErrorShape_Never(body) == FALSE

\* MuxRPCHandler.check_message raises when the body has the error shape.
IsErrorShape(body) == body.py = "dict" /\ body.name.kind # "absent" /\ body.name = NameStr("Error")

\* MuxRPCSourceHandler.__anext__ over PSStreamHandler.__anext__, once the queue
\* holds an element; on an empty queue the consumer stays suspended.
SourceNext(i) ==
    LET f == facades[i]
        h == handlers[f.ps_handler]
        elem == Head(h.queue)
    IN /\ f.type \in {"source", "duplex"}
       /\ f.state = "open"
       /\ h.queue # <<>>
       /\ handlers' = [handlers EXCEPT ![f.ps_handler].queue = Tail(@)]
       /\ IF ~Truthy(elem)
          THEN /\ facades' = [facades EXCEPT ![i].state = "ended"]
               /\ last' = Last("StopAsyncIteration", "next", None)
          ELSE IF IsErrorShape(elem.body)
          THEN /\ facades' = [facades EXCEPT ![i].state = "raised",
                                             ![i].error = elem.body.message]
               /\ last' = Last("MuxRPCAPIException", "next", None)
          ELSE /\ facades' = [facades EXCEPT ![i].yielded = Append(@, elem)]
               /\ last' = Last("none", "", None)
       /\ UNCHANGED <<api, codec, peers, messages, req_counter, event_map, connected,
                      is_connected, input, output, nreads, surfaced, minted, replied, loop>>

\* MuxRPCRequestHandler.get_response over PSRequestHandler.__anext__, once the
\* event is set; before that the consumer stays suspended.
GetResponse(i) ==
    LET f == facades[i]
        h == handlers[f.ps_handler]
    IN /\ f.type \in {"sync", "async"}
       /\ f.state = "open"
       /\ h.event
       /\ IF ~Truthy(h.msg)
          THEN /\ facades' = [facades EXCEPT ![i].state = "failed"]
               /\ last' = Last("AssertionError", "get_response", None)
          ELSE IF IsErrorShape(h.msg.body)
          THEN /\ facades' = [facades EXCEPT ![i].state = "raised",
                                             ![i].error = h.msg.body.message]
               /\ last' = Last("MuxRPCAPIException", "get_response", None)
          ELSE /\ facades' = [facades EXCEPT ![i].state = "returned",
                                             ![i].yielded = Append(@, h.msg)]
               /\ last' = Last("none", "", None)
       /\ UNCHANGED <<api, codec, peers, messages, req_counter, event_map, handlers,
                      connected, is_connected, input, output, nreads, surfaced, minted,
                      replied, loop>>

\* A further get_response() on a facade whose get_response() has returned or
\* raised: the event is set, so PSRequestHandler.__anext__ does not wait and
\* hands over the message the handler holds now.
GetResponseAgain(i) ==
    LET f == facades[i]
        h == handlers[f.ps_handler]
    IN /\ f.type \in {"sync", "async"}
       /\ f.state \in {"returned", "raised"}
       /\ h.event
       /\ Len(f.yielded) < MaxResponses
       /\ IF ~Truthy(h.msg)
          THEN /\ facades' = [facades EXCEPT ![i].state = "failed"]
               /\ last' = Last("AssertionError", "get_response", None)
          ELSE IF IsErrorShape(h.msg.body)
          THEN /\ facades' = [facades EXCEPT ![i].state = "raised",
                                             ![i].error = h.msg.body.message]
               /\ last' = Last("MuxRPCAPIException", "get_response", None)
          ELSE /\ facades' = [facades EXCEPT ![i].state = "returned",
                                             ![i].yielded = Append(@, h.msg)]
               /\ last' = Last("none", "", None)
       /\ UNCHANGED <<api, codec, peers, messages, req_counter, event_map, handlers,
                      connected, is_connected, input, output, nreads, surfaced, minted,
                      replied, loop>>

\* ------------------------------------------------------------- the frame codec
\* n bytes.
RECURSIVE Bytes(_)
Bytes(n) ==
    IF n = 0 THEN ""
    ELSE IF n % 2 = 0 THEN LET half == Bytes(n \div 2) IN half \o half
    ELSE "x" \o Bytes(n - 1)

\* struct.pack(">I", n), for n below 2^31.
pack_u32(n) == <<n \div 16777216, (n \div 65536) % 256, (n \div 256) % 256, n % 256>>

\* struct.unpack(">I", b), for a value below 2^31.
unpack_u32(b) == b[1] * 16777216 + b[2] * 65536 + b[3] * 256 + b[4]

\* struct.pack(">i", v): two's complement, the sign in the top bit of b[1].
pack_i32(v) ==
    LET low == IF v < 0 THEN (v + 2147483647) + 1 ELSE v
        b == pack_u32(low)
    IN IF v < 0 THEN <<b[1] + 128, b[2], b[3], b[4]>> ELSE b

\* Fault: the sign bit is dropped.
unpack_i32_NoSign(b) == unpack_u32(<<b[1] % 128, b[2], b[3], b[4]>>)

\* struct.unpack(">i", b)
unpack_i32(b) ==
    LET low == unpack_u32(<<b[1] % 128, b[2], b[3], b[4]>>)
    IN IF b[1] >= 128 THEN (low - 2147483647) - 1 ELSE low

\* struct.pack(">BIi", flags, length, req): nine bytes.
pack_header(header) == <<header.flags>> \o pack_u32(header.length) \o pack_i32(header.req)

\* struct.unpack(">BIi", header)
unpack_header(b) == Hdr(b[1], unpack_u32(SubSeq(b, 2, 5)), unpack_i32(SubSeq(b, 6, 9)))

\* The bodies a message of each type may hold: bytes, a str, a dict or True.
BufferLengths == {0, 5, ChunkSize, ChunkSize + 1}
CodecBodies(type_) ==
    IF type_ = BUFFER THEN {PyBytes(Bytes(n)) : n \in BufferLengths}
    ELSE IF type_ = TEXT THEN {PyStr(""), PyStr("true"), PyStr("hello")}
    ELSE {PyTrue, DataBody, ErrorBody, Envelope("duplex")}

\* The ends and the middle of the signed 32-bit range.
CodecReqs == {(-2147483647) - 1, -1, 0, 1, 2147483647}

\* _write of one message onto a transport that held nothing.
Encode(type_, body, stream, end_err, req) ==
    /\ codec = NoCodec
    /\ LET msg == PSMessage(type_, body, stream, end_err, req)
           written == _write(<<>>, msg)
       IN codec' = [codec EXCEPT !.msg = msg,
                                 !.wire = <<pack_header(Head(written))>> \o Tail(written)]
    /\ UNCHANGED <<req_counter, event_map, handlers, connected, is_connected, input, output,
                   facades, nreads, surfaced, minted, replied, loop, last, api, peers,
                   messages>>

\* struct.unpack and PSMessage.from_header_body on the header and the body
\* written.
Decode ==
    /\ codec.wire # <<>>
    /\ codec.out = None
    /\ codec.exc = "none"
    /\ LET header == unpack_header(codec.wire[1])
           body == codec.wire[2].bytes
       IN codec' = IF DecodeError(header.flags, body) # "none"
                   THEN [codec EXCEPT !.exc = DecodeError(header.flags, body)]
                   ELSE [codec EXCEPT !.out = from_header_body(header.flags, header.req, body)]
    /\ UNCHANGED <<req_counter, event_map, handlers, connected, is_connected, input, output,
                   facades, nreads, surfaced, minted, replied, loop, last, api, peers,
                   messages>>

\* Values of the bits 4-7 of a flags byte, as the number they form.
HighBits == {1, 8, 15}

\* PSMessage.from_header_body on the header written, bits 4-7 of its flags
\* byte set to hi, and the body written.
DecodeFlags(hi) ==
    /\ codec.wire # <<>>
    /\ codec.alt = None
    /\ LET header == unpack_header(codec.wire[1])
           flags == header.flags + 16 * hi
           body == codec.wire[2].bytes
           exc == DecodeError(flags, body)
       IN codec' = [codec EXCEPT !.alt =
                       [flags |-> flags, exc |-> exc,
                        out |-> IF exc = "none" THEN from_header_body(flags, header.req, body)
                                ELSE None]]
    /\ UNCHANGED <<req_counter, event_map, handlers, connected, is_connected, input, output,
                   facades, nreads, surfaced, minted, replied, loop, last, api, peers,
                   messages>>

\* _read on a transport that returns each write as one read.
Receive ==
    /\ codec.wire # <<>>
    /\ codec.got = NoGot
    /\ LET r == _read(<<unpack_header(codec.wire[1])>> \o Tail(codec.wire))
       IN codec' = [codec EXCEPT !.got = [msg |-> r.msg, what |-> r.what, exc |-> r.exc]]
    /\ UNCHANGED <<req_counter, event_map, handlers, connected, is_connected, input, output,
                   facades, nreads, surfaced, minted, replied, loop, last, api, peers,
                   messages>>

\* ------------------------------------------------- MuxRPCAPI.process_messages
\* The names an application defines callbacks for.
MethodNames == {"whoami", "blobs.get"}

\* Fault: the name is the first segment alone.
Join_First(segs) == Head(segs)

\* ".".join(segs)
RECURSIVE Join(_)
Join(segs) ==
    IF Len(segs) = 1 THEN Head(segs) ELSE Head(segs) \o "." \o Join(Tail(segs))

\* MuxRPCRequest.from_message
from_message(message) == [name |-> Join(message.body.name.segs)]

\* MuxRPCAPI.define(name)(f)
Define(name) ==
    /\ api' = [api EXCEPT !.handlers = @ \cup {name}]
    /\ last' = Last("none", "", None)
    /\ UNCHANGED <<codec, peers, messages, req_counter, event_map, handlers, connected,
                   is_connected, input, output, facades, nreads, surfaced, minted, replied,
                   loop>>

\* MuxRPCAPI.process: the callback registered for the name is called, or
\* MuxRPCAPIException is raised; process_messages() catches nothing.
MuxRPCAPI_process(a, request) ==
    IF request.name \in a.handlers
    THEN [a EXCEPT !.dispatched = Append(@, request)]
    ELSE [a EXCEPT !.task = "failed", !.exc = "MuxRPCAPIException"]

\* `isinstance(body, dict) and body.get("name")`: the name is there and is
\* neither the empty list nor the empty string.
IsCallBody(body) ==
    /\ body.py = "dict"
    /\ body.name.kind # "absent"
    /\ body.name # NameList(<<>>)
    /\ body.name # NameStr("")

\* The body of the `async for` of process_messages for one surfaced message.
Dispatched(a, req_message) ==
    IF IsCallBody(req_message.body)
    THEN MuxRPCAPI_process(a, from_message(req_message))
    ELSE a

\* What the peer sends to a serving MuxRPCAPI: calls of whoami and of
\* blobs.get, a frame that is no call, a call with an empty name, an end
\* reply, a JSON frame whose body does not parse, a frame with type bits 3,
\* nine zero bytes, and nothing at all (the transport is exhausted).
BadJsonText == "{\"id\":"
ServeFeedItems ==
    {Frame(2, 1, JsonDumps(Envelope("async"))), Frame(2, 2, BlobsGetText),
     Frame(2, 3, DataText), Frame(2, 4, EmptyNameText), Frame(14, -1, DataText),
     Frame(2, 1, BadJsonText), Frame(3, 1, DataText),
     <<ZeroHeader>>, <<>>}

\* One read() of the PacketStream inside process_messages(), with what follows
\* it in the same task: __anext__ ends or fails (and so does the task), loops
\* on a reply, or returns the message to the `async for` body.
ProcessMessages(item) ==
    /\ api.task = "running"
    /\ item # <<>> => is_connected
    /\ ReadFrom(input \o item)
    /\ api' = IF loop' = "failed" THEN [api EXCEPT !.task = "failed", !.exc = last'.exc]
              ELSE IF loop' = "ended" THEN [api EXCEPT !.task = "returned"]
              ELSE IF surfaced' # surfaced THEN Dispatched(api, last'.msg)
              ELSE api

\* ------------------------------------------------- two MuxRPCAPI instances
\* PacketStream.send on the stream record st: what send() does to the
\* variables of the first stream, done to the fields of st.
PacketStream_send(st, payload, msg_type, stream, end_err, reqOpt) ==
    LET update_counter == reqOpt = NoReq
        req == UsedReq(reqOpt, st.req_counter)
        msg == PSMessage(msg_type, payload, stream, end_err, req)
        handler == NewHandler(stream, req, st.req_counter)
    IN [req_counter |-> BumpCounter(st.req_counter, update_counter),
        event_map |-> register_handler(st.event_map, handler, Len(st.handlers) + 1),
        handlers |-> Append(st.handlers, handler),
        output |-> _write(st.output, msg)]

\* MuxRPCAPI.add_connection: the instance p is bound to the PacketStream
\* constructed for it.
PeerAddConnection(p) ==
    /\ peers[p].connection = None
    /\ peers' = [peers EXCEPT ![p].connection = StreamOf(p)]
    /\ last' = Last("none", "", None)
    /\ UNCHANGED <<api, codec, messages, req_counter, event_map, handlers, connected,
                   is_connected, input, output, facades, nreads, surfaced, minted, replied,
                   loop>>

\* Fault: the handlers table belongs to the class, so a definition made on one
\* instance shows in all of them.
PeerDefine_Shared(p, name) ==
    /\ peers' = [q \in PeerIds |-> [peers[q] EXCEPT !.api.handlers = @ \cup {name}]]
    /\ last' = Last("none", "", None)
    /\ UNCHANGED <<api, codec, messages, req_counter, event_map, handlers, connected,
                   is_connected, input, output, facades, nreads, surfaced, minted, replied,
                   loop>>

\* MuxRPCAPI.define(name)(f) on the instance p.
PeerDefine(p, name) ==
    /\ peers' = [peers EXCEPT ![p].api.handlers = @ \cup {name}]
    /\ last' = Last("none", "", None)
    /\ UNCHANGED <<api, codec, messages, req_counter, event_map, handlers, connected,
                   is_connected, input, output, facades, nreads, surfaced, minted, replied,
                   loop>>

\* MuxRPCAPI.call on the instance p, its transport open: `assert
\* self.connection`, then send() on the connection bound to p.
PeerCall(p, type_) ==
    /\ IF peers[p].connection = None
       THEN /\ last' = Last("AssertionError", "call", None)
            /\ UNCHANGED peers
       ELSE LET c == peers[p].connection.of
                st == peers[c].stream
            IN /\ Len(st.handlers) < MaxCalls
               /\ peers' = [peers EXCEPT ![c].stream =
                               PacketStream_send(st, Envelope(type_), JSON,
                                                 CallStream(type_), FALSE, NoReq)]
               /\ last' = Last("none", "", None)
    /\ UNCHANGED <<api, codec, messages, req_counter, event_map, handlers, connected,
                   is_connected, input, output, facades, nreads, surfaced, minted, replied,
                   loop>>

\* --------------------------------------------------------- feed messages
\* The classes of feed messages and the signature argument: None or a string.
MessageClasses == {"Message", "LocalMessage"}
Signatures == {None, PyStr("sig")}

\* The sequence arguments passed: the default, and values that do not follow
\* the previous message's.
SequenceArgs == {1, 2, 7}

\* Fault: the sequence argument is taken whether or not previous is given.
Message_sequence_Arg(previous, sequence) == sequence

\* Message.__init__: `if self.previous:` holds for every Message object (the
\* class defines neither __bool__ nor __len__), and only None fails it.
Message_sequence(previous, sequence) ==
    IF Truthy(previous) THEN previous.sequence + 1 ELSE sequence

\* Message.__init__ / LocalMessage.__init__ with previous None (0) or the
\* k-th message constructed: _check_signature raises ValueError for a Message
\* without signature, and signs a LocalMessage without one.  arg is history:
\* the sequence argument passed.
NewMessage(cls, signature, sequence, k) ==
    /\ Len(messages) < MaxMessages
    /\ LET previous == IF k = 0 THEN None ELSE messages[k] IN
       IF cls = "Message" /\ signature = None
       THEN /\ last' = Last("ValueError", "Message", None)
            /\ UNCHANGED messages
       ELSE /\ messages' = Append(messages,
                                  [py |-> cls, previous |-> k, arg |-> sequence,
                                   sequence |-> Message_sequence(previous, sequence)])
            /\ last' = Last("none", "", None)
    /\ UNCHANGED <<api, codec, peers, req_counter, event_map, handlers, connected,
                   is_connected, input, output, facades, nreads, surfaced, minted, replied,
                   loop>>

\* ------------------------------------------------------ stop() on a handler
\* handler.stop() called on a handler by its holder: read() makes this call on
\* an end reply, and the method is public, so a handler may be stopped before
\* any message came and stopped again after it was stopped.
HandlerStop(hid) ==
    /\ handlers[hid].stops < MaxStops
    /\ handlers' = [handlers EXCEPT ![hid] = stop(@)]
    /\ last' = Last("none", "stop", None)
    /\ UNCHANGED <<api, codec, peers, messages, req_counter, event_map, connected,
                   is_connected, input, output, facades, nreads, surfaced, minted, replied,
                   loop>>

\* The application makes one call of a type: one single-slot handler and one
\* queue-based handler are under observation.
HandlerCall(type_) ==
    /\ \A i \in DOMAIN facades : facades[i].type # type_
    /\ Call(type_)

\* The peer's replies to the calls: a one-shot reply, a frame of a stream and
\* the frame that ends it.
HandlerFeedItems == {Frame(f, -n, DataText) : f \in {2, 10, 14}, n \in ReplyIds}

\* A bare PacketStream driven by the application and the peer.
Next ==
    \/ \E a \in SendArgs : Send(a[1], a[2], a[3])
    \/ \E item \in FeedItems : FeedRead(item)
    \/ Read
    \/ Disconnect

Spec == Init /\ [][Next]_vars

\* A PacketStream bound to a MuxRPCAPI: calls, their facades and the tasks
\* consuming them.
NextRPC ==
    \/ \E type_ \in CallTypes : Call(type_)
    \/ \E i \in DOMAIN facades, end \in BOOLEAN : FacadeSend(i, end)
    \/ \E item \in RPCFeedItems : FeedRead(item)
    \/ Read
    \/ Disconnect
    \/ \E i \in DOMAIN facades : SourceNext(i)
    \/ \E i \in DOMAIN facades : GetResponse(i)

SpecRPC == Init /\ [][NextRPC]_vars

\* A MuxRPCAPI serving the peer's calls in process_messages() while the
\* application defines callbacks and makes calls of its own.
NextServe ==
    \/ \E name \in MethodNames : Define(name)
    \/ \E item \in ServeFeedItems : ProcessMessages(item)
    \/ \E type_ \in {"sync", "source"} : Call(type_)
    \/ Disconnect

SpecServe == Init /\ [][NextServe]_vars

\* The peer's closing replies to the calls of the tasks.
EndReplies == {Frame(14, -n, DataText) : n \in ReplyIds}

\* Several tasks calling and sending on one PacketStream while the main loop
\* reads the peer's replies.
NextTasks ==
    \/ \E type_ \in CallTypes : TaskCall(type_)
    \/ \E i \in DOMAIN facades, end \in BOOLEAN : TaskSend(i, end)
    \/ \E item \in EndReplies : FeedRead(item)

SpecTasks == Init /\ [][NextTasks]_vars

\* The codec alone: one message encoded, then decoded and received.
NextCodec ==
    \/ \E type_ \in {BUFFER, TEXT, JSON}, stream \in BOOLEAN, end_err \in BOOLEAN,
          req \in CodecReqs :
          \E body \in CodecBodies(type_) : Encode(type_, body, stream, end_err, req)
    \/ Decode
    \/ \E hi \in HighBits : DecodeFlags(hi)
    \/ Receive

SpecCodec == Init /\ [][NextCodec]_vars

\* Handlers stopped by their holder as well as by read(), with the consumers
\* of their calls.
NextHandler ==
    \/ \E type_ \in {"sync", "source"} : HandlerCall(type_)
    \/ \E item \in HandlerFeedItems : FeedRead(item)
    \/ \E hid \in DOMAIN handlers : HandlerStop(hid)
    \/ \E i \in DOMAIN facades : SourceNext(i)
    \/ \E i \in DOMAIN facades : GetResponse(i)

SpecHandler == Init /\ [][NextHandler]_vars

\* The peer's replies in a stream: frames of it and the frame that ends it.
StreamFeedItems == {Frame(f, -n, DataText) : f \in {10, 14}, n \in ReplyIds}

\* The read loop as the one producer of queue-based handlers and the task
\* iterating each of them as its one consumer, running concurrently.
NextStream ==
    \/ \E type_ \in {"source", "duplex"} : HandlerCall(type_)
    \/ \E item \in StreamFeedItems : FeedRead(item)
    \/ \E i \in DOMAIN facades : SourceNext(i)

SpecStream == Init /\ [][NextStream]_vars

\* The peer's replies to one-shot calls: a reply, an error, and a reply with
\* the end/error bit (0x06).
ReplyFeedItems ==
    {Frame(sh[1], -n, sh[2]) :
        sh \in {<<2, DataText>>, <<2, ErrorText>>, <<6, DataText>>}, n \in ReplyIds}

\* The read loop routing replies of sync and async calls while a task per
\* call awaits get_response(), once or again.
NextReplies ==
    \/ \E type_ \in {"sync", "async"} : HandlerCall(type_)
    \/ \E item \in ReplyFeedItems : FeedRead(item)
    \/ \E i \in DOMAIN facades : GetResponse(i)
    \/ \E i \in DOMAIN facades : GetResponseAgain(i)

SpecReplies == Init /\ [][NextReplies]_vars

\* What a transport that ends in the middle of a frame returns: a header and
\* nothing more, a header and an empty read, and a header announcing two
\* body reads followed by one, with and without an empty read after it; and
\* the ends on a header, a whole reply and a whole frame of the peer's own.
CutFeedItems ==
    {<<Hdr(10, Len(DataText), -1)>>,
     <<Hdr(10, Len(DataText), -1), EmptyRead>>,
     <<Hdr(0, ChunkSize + 1, 1), Data(Bytes(ChunkSize))>>,
     <<Hdr(0, ChunkSize + 1, -1), Data(Bytes(ChunkSize)), EmptyRead>>,
     <<ZeroHeader>>, <<EmptyRead>>,
     Frame(10, -1, DataText), Frame(2, 1, DataText)}

\* The read loop on a transport that may end at any point, with calls pending.
NextCut ==
    \/ \E type_ \in {"sync", "source"} : HandlerCall(type_)
    \/ \E item \in CutFeedItems : FeedRead(item)
    \/ Read

SpecCut == Init /\ [][NextCut]_vars

\* call() with every type_ an application may pass, on a transport that the
\* application may close.
NextCalls ==
    \/ \E type_ \in CallTypes \cup {UnknownType} : Call(type_)
    \/ Disconnect

SpecCalls == Init /\ [][NextCalls]_vars

\* ------------------------------------------------- two PacketStreams joined
\* What one side passes to send(): bytes of every length of BufferLengths and
\* a str, as <<payload, msg_type>>.
LinkPayloads ==
    {<<b, BUFFER>> : b \in CodecBodies(BUFFER)} \cup {<<PyStr("hello"), TEXT>>}

\* send() on the PacketStream of instance "a", whose transport hands each
\* write to the first PacketStream as one read: the two chunks _write appends
\* to the sender's output are appended to the receiver's input.
LinkSend(payload, msg_type, stream) ==
    LET st == peers["a"].stream
        sent == PacketStream_send(st, payload, msg_type, stream, FALSE, NoReq)
    IN /\ Len(st.handlers) < MaxSends
       /\ peers' = [peers EXCEPT !["a"].stream = sent]
       /\ input' = input \o SubSeq(sent.output, Len(st.output) + 1, Len(sent.output))
       /\ last' = Last("none", "", None)
       /\ UNCHANGED <<api, codec, messages, req_counter, event_map, handlers, connected,
                      is_connected, output, facades, nreads, surfaced, minted, replied,
                      loop>>

\* One iteration of the receiver's `async for`, taken while the loop runs and
\* the transport holds something to read.
LinkRead ==
    /\ loop = "running"
    /\ input # <<>>
    /\ ReadFrom(input)
    /\ UNCHANGED api

NextLink ==
    \/ \E pl \in LinkPayloads, stream \in BOOLEAN : LinkSend(pl[1], pl[2], stream)
    \/ LinkRead

SpecLink == Init /\ [][NextLink]_vars

\* Event.set() makes the task waiting in Event.wait() ready, and the event loop
\* runs every ready task: a get_response() that can return does return.
SpecRepliesFair ==
    /\ SpecReplies
    /\ \A i \in 1..MaxCalls : WF_vars(i \in DOMAIN facades /\ GetResponse(i))

\* Two MuxRPCAPI instances, each with a PacketStream of its own, on which the
\* application defines callbacks and makes calls.
NextPeers ==
    \/ \E p \in PeerIds : PeerAddConnection(p)
    \/ \E p \in PeerIds, name \in MethodNames : PeerDefine(p, name)
    \/ \E p \in PeerIds, type_ \in {"sync", "source"} : PeerCall(p, type_)

SpecPeers == Init /\ [][NextPeers]_vars

\* Feed messages constructed one after another, each with no previous or with
\* one of the messages constructed before it.
NextFeed ==
    \E cls \in MessageClasses, signature \in Signatures, sequence \in SequenceArgs,
       k \in 0..Len(messages) : NewMessage(cls, signature, sequence, k)

SpecFeed == Init /\ [][NextFeed]_vars

\* ------------------------------------------------------------------- claims
IsPrefix(a, b) == Len(a) <= Len(b) /\ \A i \in DOMAIN a : a[i] = b[i]

\* A step that is a read() of the loop.
IsRead == nreads' # nreads

\* A read() that decoded a reply frame and routed it without raising.
RoutedReply == IsRead /\ last'.what = "reply" /\ last'.exc = "none"

\* C1: the ids send() mints when req is unset are 1, 2, 3, ... in order: the
\* i-th minted id is i, and the counter is one past the last minted id,
\* whatever reads and explicit-req sends come in between.
C1_MintedIdsCountUp ==
    /\ \A i \in DOMAIN minted : minted[i] = i
    /\ req_counter = Len(minted) + 1

\* Two ids minted, with an explicit-req send between them (its handler took the
\* counter value 2 before id 2 was minted) and a read() made.
C1_Witness ==
    /\ Len(minted) = 2
    /\ Len(handlers) = 3
    /\ handlers[2].req = 2
    /\ nreads > 0

\* C2: a reply with req = -N goes to the handler registered for id N and to no
\* other: that handler's received messages grow by exactly this frame, every
\* other handler's stay as they are, and so every handler only ever holds
\* frames that carry its own negated id, in arrival order.
C2_ReplyToItsHandler ==
    /\ [](\A hid \in DOMAIN handlers : \A i \in DOMAIN handlers[hid].recv :
            handlers[hid].recv[i].req = -handlers[hid].req)
    /\ [][(RoutedReply /\ -last'.msg.req \in DOMAIN event_map) =>
            \A hid \in DOMAIN handlers :
                handlers'[hid].recv =
                    IF hid = event_map[-last'.msg.req]
                    THEN Append(handlers[hid].recv, last'.msg)
                    ELSE handlers[hid].recv]_vars

\* Two ids pending at once and each of their handlers has received a frame.
C2_Witness ==
    \E a, b \in DOMAIN handlers :
        /\ a # b
        /\ handlers[a].req # handlers[b].req
        /\ handlers[a].recv # <<>>
        /\ handlers[b].recv # <<>>

\* C3: on a reply with the end/error bit the frame is handed to handler N, then
\* the handler is stopped (in a stream handler's queue the frame comes right
\* before the sentinel), then N leaves the pending table; a reply without the
\* bit is handed over and leaves the entry and the handler's stop count alone.
C3_EndReplyOrder ==
    [][(RoutedReply /\ -last'.msg.req \in DOMAIN event_map) =>
        LET m == last'.msg
            N == -m.req
            hid == event_map[N]
            h == handlers[hid]
            g == handlers'[hid]
        IN IF m.end_err
           THEN /\ N \notin DOMAIN event_map'
                /\ g.stops = h.stops + 1
                /\ h.kind = "stream" => g.queue = h.queue \o <<m, None>>
                /\ h.kind = "request" => g.msg = m /\ g.event
           ELSE /\ N \in DOMAIN event_map'
                /\ event_map'[N] = hid
                /\ g.stops = h.stops
                /\ h.kind = "stream" => g.queue = Append(h.queue, m)]_vars

\* A stream handler that received a frame without the bit, then one with it,
\* was stopped once and is no longer in the pending table.
C3_Witness ==
    \E hid \in DOMAIN handlers :
        LET h == handlers[hid] IN
        /\ h.kind = "stream"
        /\ Len(h.recv) = 2
        /\ ~h.recv[1].end_err
        /\ h.recv[2].end_err
        /\ h.stops = 1
        /\ h.req \notin DOMAIN event_map

\* C4: a reply with req = -N for which the pending table has no entry N is
\* discarded: read() does not raise, the pending table and the handlers are
\* unchanged, and the loop goes on.
C4_UnknownReplyDiscarded ==
    [][(IsRead /\ last'.what = "reply" /\ -last'.msg.req \notin DOMAIN event_map) =>
        /\ last'.exc = "none"
        /\ event_map' = event_map
        /\ handlers' = handlers
        /\ loop' = "running"]_vars

\* C5: once the reply of a sync or async call was read, the id of the call is
\* no longer in the pending table, also when the reply came with flags 0x02.
C5_RequestEntryRemoved ==
    \A i \in DOMAIN facades :
        (facades[i].type \in {"sync", "async"} /\ handlers[facades[i].ps_handler].recv # <<>>)
            => facades[i].req \notin DOMAIN event_map

\* The messages a stream handler received hold no error-shaped body.
NoErrorBody(h) == \A i \in DOMAIN h.recv : ~IsErrorShape(h.recv[i].body)

\* C6: iterating the facade of a source (or duplex) call whose replies hold no
\* error body yields the frames received, in arrival order and never more;
\* the iteration ends exactly after the frame with the end/error bit, that
\* frame included, and it does end once the queue is drained.
C6_SourceYieldsAllThenEnds ==
    \A i \in DOMAIN facades :
        LET f == facades[i]
            h == handlers[f.ps_handler]
        IN (f.type \in {"source", "duplex"} /\ NoErrorBody(h)) =>
            /\ IsPrefix(f.yielded, h.recv)
            /\ f.state \in {"open", "ended"}
            /\ f.state = "ended" =>
                  /\ f.yielded = h.recv
                  /\ h.recv # <<>>
                  /\ h.recv[Len(h.recv)].end_err
                  /\ \A j \in 1..(Len(h.recv) - 1) : ~h.recv[j].end_err
            /\ (h.stops > 0 /\ h.queue = <<>>) => f.state = "ended"
            /\ (h.stops = 0 /\ h.queue = <<>>) => (f.state = "open" /\ f.yielded = h.recv)

\* A source call whose iteration ended after exactly two yielded messages.
C6_Witness ==
    \E i \in DOMAIN facades :
        /\ facades[i].type = "source"
        /\ facades[i].state = "ended"
        /\ Len(facades[i].yielded) = 2
        /\ ~facades[i].yielded[1].end_err

\* C7: the main loop surfaces a frame iff its req is >= 0, appending it to what
\* it surfaced before; a frame with negative req, a sentinel and a failed read
\* surface nothing, and no other operation surfaces anything.
C7_SurfacesNonNegativeOnly ==
    /\ [](\A i \in DOMAIN surfaced : surfaced[i].req >= 0)
    /\ [][surfaced' =
            IF IsRead /\ last'.msg # None /\ last'.msg.req >= 0
            THEN Append(surfaced, last'.msg)
            ELSE surfaced]_vars

\* A frame with req 0 was surfaced and a reply was routed to a handler.
C7_Witness ==
    /\ \E i \in DOMAIN surfaced : surfaced[i].req = 0
    /\ \E hid \in DOMAIN handlers : handlers[hid].recv # <<>>

\* A read() that met nine zero bytes, an empty read or the end of the transport
\* where a header was expected.
SentinelRead == IsRead /\ last'.what \in {"zero", "empty", "exhausted"}

\* C8: on nine zero bytes, an empty read or exhaustion read() returns None
\* without raising and the loop ends; the counter and the pending table stay
\* as they were; and no id of a call whose end/error reply was read is in the
\* pending table.
C8_SentinelEndsLoop ==
    /\ [](replied \cap DOMAIN event_map = {})
    /\ [][SentinelRead =>
            /\ last'.exc = "none"
            /\ last'.msg = None
            /\ loop' = "ended"
            /\ req_counter' = req_counter
            /\ event_map' = event_map
            /\ handlers' = handlers]_vars

\* The loop ended on such a read with one call answered and another pending.
C8_Witness ==
    /\ last.what \in {"zero", "empty", "exhausted"}
    /\ loop = "ended"
    /\ replied # {}
    /\ DOMAIN event_map # {}

\* The connection has ended: the loop ended on a sentinel or the transport
\* reports disconnected.
ConnectionEnded == loop = "ended" \/ ~is_connected

\* The consumer of facade i has all it will get: the handler was stopped.
Terminated(i) == handlers[facades[i].ps_handler].stops > 0

\* C9: once the connection has ended, every outstanding handler a consumer may
\* be waiting on has been terminated, so that the consumer meets the end of the
\* stream.
C9_HandlersTerminatedAtEnd ==
    ConnectionEnded =>
        \A i \in DOMAIN facades :
            (facades[i].type # "sink" /\ facades[i].req \in DOMAIN event_map) => Terminated(i)

\* C10: nothing is written, minted or registered by a step taken while the
\* transport reports disconnected: send() raises instead.
C10_NoSendWhenDisconnected ==
    [][~is_connected =>
        /\ output' = output
        /\ req_counter' = req_counter
        /\ Len(handlers') = Len(handlers)
        /\ DOMAIN event_map' \subseteq DOMAIN event_map]_vars

\* C11: a call of a method with no registered callback raises
\* MuxRPCAPIException without ending process_messages(): the task is still
\* running afterwards, so that the calls that follow are dispatched.
C11_MethodNotFoundNotFatal ==
    api.exc = "MuxRPCAPIException" => api.task = "running"

\* C12: a frame that cannot be decoded (a JSON body that does not parse, type
\* bits 3) is discarded: read() does not raise, no handler and no entry of the
\* pending table changes, and the loop goes on.
C12_MalformedFrameDiscarded ==
    [][(IsRead /\ last'.what = "malformed") =>
        /\ last'.exc = "none"
        /\ handlers' = handlers
        /\ event_map' = event_map
        /\ loop' = "running"]_vars

\* A body that is a JSON object whose name is "Error".
ErrorNamed(body) == body.py = "dict" /\ body.name = NameStr("Error")

\* C13: get_response() of a sync or async call whose reply has arrived returns
\* that reply when its body is not a JSON object named "Error", and raises
\* MuxRPCAPIException with the body's message, returning nothing, exactly when
\* it is; no error-shaped reply is ever among what get_response() returned.
C13_GetResponseReturnsOrRaises ==
    /\ [](\A i \in DOMAIN facades :
            facades[i].type \in {"sync", "async"} =>
                \A j \in DOMAIN facades[i].yielded : ~ErrorNamed(facades[i].yielded[j].body))
    /\ [][\A i \in DOMAIN facades :
            LET f == facades[i]
                g == facades'[i]
                h == handlers[f.ps_handler]
            IN (/\ f.type \in {"sync", "async"}
                /\ g.state # f.state \/ g.yielded # f.yielded
                /\ h.msg # None) =>
                IF ErrorNamed(h.msg.body)
                THEN g.state = "raised" /\ g.error = h.msg.body.message /\ g.yielded = <<>>
                ELSE g.state = "returned" /\ g.yielded = <<h.msg>> /\ g.error = ""]_vars

\* One get_response() raised with the message "boom" and another returned its
\* reply.
C13_Witness ==
    \E i, j \in DOMAIN facades :
        /\ facades[i].type \in {"sync", "async"}
        /\ facades[i].state = "raised"
        /\ facades[i].error = "boom"
        /\ facades[j].type \in {"sync", "async"}
        /\ facades[j].state = "returned"

\* C14: iterating a source or duplex facade yields the messages received, in
\* arrival order, up to the first whose body has the error shape; that
\* message is never yielded: taking it from the queue raises
\* MuxRPCAPIException with its message and ends the iteration.
C14_SourceRaisesOnFirstError ==
    /\ [](\A i \in DOMAIN facades :
            LET f == facades[i]
                h == handlers[f.ps_handler]
            IN f.type \in {"source", "duplex"} =>
                /\ IsPrefix(f.yielded, h.recv)
                /\ \A j \in DOMAIN f.yielded : ~ErrorNamed(f.yielded[j].body)
                /\ f.state = "raised" =>
                      LET k == Len(f.yielded) + 1 IN
                      /\ k \in DOMAIN h.recv
                      /\ ErrorNamed(h.recv[k].body)
                      /\ f.error = h.recv[k].body.message)
    /\ [][\A i \in DOMAIN facades :
            LET f == facades[i]
                g == facades'[i]
                queue == handlers[f.ps_handler].queue
                elem == Head(queue)
            IN (/\ f.type \in {"source", "duplex"}
                /\ g.state # f.state \/ g.yielded # f.yielded
                /\ queue # <<>>
                /\ elem # None) =>
                IF ErrorNamed(elem.body)
                THEN g.state = "raised" /\ g.error = elem.body.message /\ g.yielded = f.yielded
                ELSE g.state = "open" /\ g.yielded = Append(f.yielded, elem)]_vars

\* A source iteration that yielded one message and then raised on the error
\* that followed it.
C14_Witness ==
    \E i \in DOMAIN facades :
        /\ facades[i].type = "source"
        /\ facades[i].state = "raised"
        /\ facades[i].error = "boom"
        /\ Len(facades[i].yielded) = 1

\* The stream bit of a packed header.
StreamBit(header) == (header.flags \div 8) % 2 = 1

\* C15: send() on a sink or duplex facade writes a frame, and every frame so
\* written carries the id call() minted for that call (the i-th call holds the
\* i-th minted id) with the stream bit set, whatever calls were made in
\* between; a facade send leaves the request counter and the minted ids alone.
C15_FacadeSendReusesCallId ==
    /\ [](last.exc # "NotImplementedError")
    /\ [](\A i \in DOMAIN facades :
            /\ facades[i].req = minted[i]
            /\ facades[i].sent # <<>> => facades[i].type \in {"sink", "duplex"}
            /\ \A j \in DOMAIN facades[i].sent :
                  /\ facades[i].sent[j].req = facades[i].req
                  /\ StreamBit(facades[i].sent[j]))
    /\ [][(\E i \in DOMAIN facades : facades'[i].sent # facades[i].sent) =>
            /\ req_counter' = req_counter
            /\ minted' = minted]_vars

\* C16: a sink call, a frame sent through a facade and any other send() with
\* an explicit req add no entry to the pending table.
C16_NoEntryForSinkOrExplicitReq ==
    [][(/\ output' # output
        /\ \/ minted' = minted
           \/ /\ Len(facades') > Len(facades)
              /\ facades'[Len(facades')].type = "sink")
        => DOMAIN event_map' = DOMAIN event_map]_vars

\* C17: the handler send() creates has the id written in the frame as its req
\* and is registered in the pending table under that id, whether the id was
\* minted or passed as req.
C17_HandlerKeyedByFrameId ==
    [][Len(handlers') = Len(handlers) + 1 =>
        LET header == output'[Len(output) + 1]
            hid == Len(handlers')
        IN /\ handlers'[hid].req = header.req
           /\ header.req \in DOMAIN event_map'
           /\ event_map'[header.req] = hid]_vars

\* C20: whatever the order in which the tasks' calls and facade sends run, no
\* two calls hold the same id, and the id of every call whose handler was not
\* stopped by an end reply maps, in the pending table, to the handler that
\* call returned.
C20_NoIdReuseNoLostRegistration ==
    /\ \A i, j \in DOMAIN facades : i # j => facades[i].req # facades[j].req
    /\ \A i \in DOMAIN facades :
          handlers[facades[i].ps_handler].stops = 0 =>
              /\ facades[i].req \in DOMAIN event_map
              /\ event_map[facades[i].req] = facades[i].ps_handler

\* A facade send ran between two calls: its handler took the counter value 2,
\* and the second call, which minted id 2, is the one the table holds.
C20_Witness ==
    /\ Len(facades) = 2
    /\ Len(handlers) = 3
    /\ facades[2].ps_handler = 3
    /\ handlers[2].req = 2
    /\ 2 \in DOMAIN event_map
    /\ event_map[2] = 3

\* C18: decoding the header and the body that encoding produced raises nothing
\* and gives back the message encoded: the same type, body, stream flag,
\* end_err flag and req, for req over the signed 32-bit range and for the JSON
\* body true.
C18_DecodeEncodeRoundTrip ==
    /\ codec.exc = "none"
    /\ codec.out # None => codec.out = codec.msg

\* The JSON body true, with the least 32-bit req, was encoded to the bytes
\* `true` and decoded.
C18_Witness ==
    /\ codec.out # None
    /\ codec.msg.body = PyTrue
    /\ codec.msg.req = (-2147483647) - 1
    /\ codec.msg.stream
    /\ codec.wire[2].bytes = "true"

\* C19: a body of L bytes is written as ceil(L/4096) writes of at most 4096
\* bytes after the header, and the ceil(L/4096) reads made on receive rebuild
\* those L bytes.
C19_BodyChunkedBy4096 ==
    /\ codec.wire # <<>> =>
          /\ Len(codec.wire) - 1 = n_packets(Len(data(codec.msg)))
          /\ \A k \in 2..Len(codec.wire) : Len(codec.wire[k].bytes) <= ChunkSize
    /\ codec.got # NoGot =>
          /\ codec.got.msg # None
          /\ data(codec.got.msg) = data(codec.msg)

\* C21: stopping a single-slot handler that has received no message unblocks
\* the consumer waiting on it, and what the consumer then meets is the normal
\* end of the stream with no value, not an error.
C21_StopWithoutMessageEndsNormally ==
    \A i \in DOMAIN facades :
        LET f == facades[i]
            h == handlers[f.ps_handler]
        IN (f.type = "sync" /\ h.stops > 0 /\ h.recv = <<>> /\ f.state # "open") =>
              /\ f.state = "ended"
              /\ f.yielded = <<>>

\* The messages of a queue that come before its first sentinel.
RECURSIVE UpToSentinel(_)
UpToSentinel(queue) ==
    IF queue = <<>> \/ Head(queue) = None THEN <<>>
    ELSE <<Head(queue)>> \o UpToSentinel(Tail(queue))

\* What the consumer of facade f has been given so far together with what the
\* handler h, as it is, will still give it: the messages, and how it ends.
Observation(f, h) ==
    IF f.state # "open" THEN [seen |-> f.yielded, end |-> f.state]
    ELSE IF h.kind = "stream"
    THEN [seen |-> f.yielded \o UpToSentinel(h.queue),
          end |-> IF \E k \in DOMAIN h.queue : h.queue[k] = None THEN "ended" ELSE "open"]
    ELSE [seen |-> IF h.msg # None THEN <<h.msg>> ELSE <<>>,
          end |-> IF ~h.event THEN "open" ELSE IF h.msg # None THEN "returned" ELSE "failed"]

\* C22: a stop() on a handler that was stopped before raises nothing and
\* leaves what the consumer observes as it was after the first stop: the same
\* messages and the same single end; and no stop() on a single-slot handler
\* clears or replaces the message it holds.
C22_SecondStopChangesNothing ==
    [][\A i \in DOMAIN facades :
        LET f == facades[i]
            h == handlers[f.ps_handler]
            g == handlers'[f.ps_handler]
        IN (last'.what = "stop" /\ g.stops = h.stops + 1) =>
              /\ last'.exc = "none"
              /\ h.kind = "request" => g.msg = h.msg
              /\ h.stops >= 1 => Observation(facades'[i], g) = Observation(f, h)]_vars

\* A stream handler stopped twice whose consumer got its one message and one
\* end, the second sentinel left in the queue; and a single-slot handler
\* stopped twice after its message, which its consumer was returned.
C22_Witness ==
    \E i, j \in DOMAIN facades :
        LET f == facades[i]
            h == handlers[f.ps_handler]
            g == handlers[facades[j].ps_handler]
        IN /\ f.type = "source" /\ f.state = "ended" /\ Len(f.yielded) = 1
           /\ h.stops = 2 /\ h.queue = <<None>>
           /\ facades[j].type = "sync" /\ facades[j].state = "returned"
           /\ g.stops = 2 /\ g.msg # None

\* C23: disconnect() closes the transport and leaves the stream marked not
\* connected, and nothing else changes: every entry of the pending table
\* stays, no handler is stopped or otherwise touched, the request counter
\* keeps its value and nothing is written or read.
C23_DisconnectChangesNothingElse ==
    /\ [](~connected)
    /\ [][(is_connected /\ ~is_connected' /\ ~IsRead) =>
            /\ event_map' = event_map
            /\ handlers' = handlers
            /\ req_counter' = req_counter
            /\ facades' = facades
            /\ output' = output
            /\ input' = input
            /\ surfaced' = surfaced
            /\ loop' = loop
            /\ api' = api]_vars

\* Disconnected with no read made, two calls still in the pending table, their
\* handlers not stopped, and the counter at 3.
C23_Witness ==
    /\ ~is_connected
    /\ nreads = 0
    /\ DOMAIN event_map = {1, 2}
    /\ \A hid \in DOMAIN handlers : handlers[hid].stops = 0
    /\ req_counter = 3

\* A message whose JSON body is an object with a non-empty list as its name.
IsNamedCall(m) ==
    m.body.py = "dict" /\ m.body.name.kind = "list" /\ m.body.name.segs # <<>>

\* The segments of a name of one or two segments, joined by a dot.
DottedName(segs) == IF Len(segs) = 1 THEN segs[1] ELSE segs[1] \o "." \o segs[2]

C25_InstancesIndependent ==
    /\ [](\A p \in PeerIds :
            LET st == peers[p].stream IN
            /\ st.req_counter = Len(st.handlers) + 1
            /\ DOMAIN st.event_map = 1..Len(st.handlers)
            /\ \A i \in DOMAIN st.handlers :
                  st.handlers[i].req = i /\ st.output[2 * i - 1].req = i)
    /\ [][\A p, q \in PeerIds : (p # q /\ peers'[p] # peers[p]) => peers'[q] = peers[q]]_vars

\* One instance has defined whoami and made two calls, the other has defined
\* blobs.get and made one: the counters stand at 3 and at 2.
C25_Witness ==
    /\ peers["a"].api.handlers = {"whoami"}
    /\ peers["a"].stream.req_counter = 3
    /\ peers["b"].api.handlers = {"blobs.get"}
    /\ peers["b"].stream.req_counter = 2
    /\ peers["b"].connection = StreamOf("b")

\* The number of messages on the chain that ends in the i-th message.
RECURSIVE ChainLength(_)
ChainLength(i) ==
    IF messages[i].previous = 0 THEN 1 ELSE 1 + ChainLength(messages[i].previous)

\* The message the chain of the i-th message starts with.
RECURSIVE ChainStart(_)
ChainStart(i) == IF messages[i].previous = 0 THEN i ELSE ChainStart(messages[i].previous)

\* C26: a message built with a previous message has the previous message's
\* sequence plus one, whatever sequence argument was passed; a message
\* without previous has the sequence argument; so on a chain whose first
\* message has sequence 1 the n-th message has sequence n.
C26_SequenceFollowsPrevious ==
    \A i \in DOMAIN messages :
        LET msg == messages[i] IN
        /\ msg.previous # 0 => msg.sequence = messages[msg.previous].sequence + 1
        /\ msg.previous = 0 => msg.sequence = msg.arg
        /\ messages[ChainStart(i)].sequence = 1 => msg.sequence = ChainLength(i)

\* A chain of three messages started at 1 whose second and third were passed
\* sequence arguments that do not follow: their sequences are 2 and 3.
C26_Witness ==
    /\ Len(messages) = 3
    /\ messages[1].previous = 0 /\ messages[1].sequence = 1
    /\ messages[2].previous = 1 /\ messages[2].arg = 7
    /\ messages[3].previous = 2 /\ messages[3].arg = 1
    /\ messages[3].sequence = 3

\* C27: the request counter moves only in a send() with req unset, which adds
\* exactly one to it; a read() of any frame, a send() with an explicit req and
\* disconnect() leave it as it was.
C27_CounterMovesOnlyOnMint ==
    [][/\ minted' # minted =>
            /\ req_counter' = req_counter + 1
            /\ Len(handlers') = Len(handlers) + 1
       /\ minted' = minted => req_counter' = req_counter
       /\ IsRead => req_counter' = req_counter
       /\ is_connected' # is_connected => req_counter' = req_counter]_vars

\* One id was minted; a send() with an explicit req, a read() of a reply, a
\* read() of an inbound frame and a disconnect() were made as well, and the
\* counter stands at 2.
C27_Witness ==
    /\ req_counter = 2
    /\ Len(minted) = 1
    /\ Len(handlers) = 2
    /\ nreads = 2
    /\ surfaced # <<>>
    /\ \E hid \in DOMAIN handlers : handlers[hid].recv # <<>>
    /\ ~is_connected
    /\ loop = "running"

\* C28: every key of the pending table is an id that was minted: 1 <= k <
\* req_counter holds for each key k in every reachable state.
C28_PendingKeysWereMinted ==
    \A k \in DOMAIN event_map : 1 <= k /\ k < req_counter

\* C29: the handler send() creates is queue-based iff the frame it wrote has
\* the stream bit, and single-slot otherwise; call() sets the stream bit
\* exactly for source, sink and duplex; so the handler behind the facade of a
\* sync or async call is single-slot and the one behind a source, sink or
\* duplex facade is queue-based, which is what the facades assert.
C29_HandlerKindMatchesFacade ==
    /\ \A hid \in DOMAIN handlers :
          handlers[hid].kind = (IF StreamBit(output[2 * hid - 1]) THEN "stream" ELSE "request")
    /\ \A i \in DOMAIN facades :
          LET f == facades[i] IN
          /\ StreamBit(output[2 * f.ps_handler - 1]) <=> f.type \in {"source", "sink", "duplex"}
          /\ f.type \in {"sync", "async"} => handlers[f.ps_handler].kind = "request"
          /\ f.type \in {"source", "sink", "duplex"} => handlers[f.ps_handler].kind = "stream"

\* An async, a source and a duplex call were made, none of them raising.
C29_Witness ==
    /\ Len(facades) = 3
    /\ {facades[i].type : i \in DOMAIN facades} = {"async", "source", "duplex"}
    /\ last.exc = "none"

\* C30: the flags byte written for a message is 8*stream + 4*end_err + type;
\* decoding takes the type from bits 0-1, end_err from bit 2 and stream from
\* bit 3 and ignores bits 4-7: the same header with any of those bits set
\* decodes, without raising, to the message that was encoded.
C30_FlagsByteLayout ==
    /\ codec.wire # <<>> =>
          codec.wire[1][1] = 8 * (IF codec.msg.stream THEN 1 ELSE 0)
                             + 4 * (IF codec.msg.end_err THEN 1 ELSE 0)
                             + codec.msg.type
    /\ codec.out # None =>
          /\ codec.out.type = codec.wire[1][1] % 4
          /\ codec.out.end_err = ((codec.wire[1][1] \div 4) % 2 = 1)
          /\ codec.out.stream = ((codec.wire[1][1] \div 8) % 2 = 1)
    /\ codec.alt # None =>
          /\ codec.alt.flags \div 16 # 0
          /\ codec.alt.flags % 16 = codec.wire[1][1]
          /\ codec.alt.exc = "none"
          /\ codec.alt.out = codec.msg
          /\ codec.out # None => codec.alt.out = codec.out

\* A text message with end_err set and stream unset was written with the
\* flags byte 5 and decoded from it and from the byte 0xf5.
C30_Witness ==
    /\ codec.wire # <<>>
    /\ codec.wire[1][1] = 5
    /\ codec.out # None
    /\ codec.alt # None
    /\ codec.alt.flags = 245
    /\ ~codec.alt.out.stream

\* C31: every send() makes exactly two transport writes, the nine-byte header
\* holding the flags, the length of the body and the req, and then the body;
\* the writes of two send() calls never interleave, so the output is at all
\* times a sequence of header/body pairs.
C31_OutputIsHeaderBodyPairs ==
    /\ [](/\ Len(output) = 2 * Len(handlers)
          /\ \A k \in 1..Len(handlers) :
                LET header == output[2 * k - 1]
                    body == output[2 * k]
                IN /\ header.kind = "hdr"
                   /\ body.kind = "data"
                   /\ header.length = Len(body.bytes)
                   /\ Len(pack_header(header)) = 9)
    /\ [][output' # output =>
            /\ Len(output') = Len(output) + 2
            /\ SubSeq(output', 1, Len(output)) = output
            /\ Len(handlers') = Len(handlers) + 1]_vars

\* Three sends by two tasks, a facade send between two calls: six writes.
C31_Witness ==
    /\ Len(output) = 6
    /\ Len(facades) = 2
    /\ facades[1].sent # <<>>
    /\ output[3].req = output[1].req
    /\ output[5].req # output[1].req

\* C32: with the read loop producing and one task consuming a queue-based
\* handler concurrently, nothing is lost, duplicated or reordered: what the
\* consumer was given, followed by what is queued, is what process() was
\* passed, in that order; the consumer ends only after all of it, once the
\* handler was stopped; and the consumer is given something only when the
\* queue holds an element, which it takes from the head.
C32_QueueKeepsEveryMessageInOrder ==
    /\ [](\A i \in DOMAIN facades :
            LET f == facades[i]
                h == handlers[f.ps_handler]
            IN /\ f.state \in {"open", "ended"}
               /\ f.state = "open" =>
                     /\ f.yielded \o UpToSentinel(h.queue) = h.recv
                     /\ h.stops > 0 => h.queue # <<>> /\ h.queue[Len(h.queue)] = None
               /\ f.state = "ended" => f.yielded = h.recv /\ h.stops > 0 /\ h.queue = <<>>)
    /\ [][\A i \in DOMAIN facades :
            LET f == facades[i]
                g == facades'[i]
                queue == handlers[f.ps_handler].queue
            IN g # f =>
                  /\ queue # <<>>
                  /\ handlers'[f.ps_handler].queue = Tail(queue)
                  /\ IF Head(queue) = None
                     THEN g.state = "ended" /\ g.yielded = f.yielded
                     ELSE g.state = "open" /\ g.yielded = Append(f.yielded, Head(queue))]_vars

\* A consumer that was given the two messages its handler received and then
\* met the end.
C32_Witness ==
    \E i \in DOMAIN facades :
        /\ facades[i].state = "ended"
        /\ Len(facades[i].yielded) = 2
        /\ handlers[facades[i].ps_handler].stops = 1

\* C33: a read() of a frame with req >= 0 raises nothing, surfaces the frame
\* and changes neither the pending table nor any handler, also when the req
\* of the frame is an id that is pending.
C33_InboundFrameLeavesRepliesAlone ==
    [][(IsRead /\ last'.msg # None /\ last'.msg.req >= 0) =>
        /\ last'.exc = "none"
        /\ event_map' = event_map
        /\ handlers' = handlers
        /\ surfaced' = Append(surfaced, last'.msg)]_vars

\* The peer's frame with req 1 was surfaced while the call with id 1 is
\* pending; the handler of that call has received nothing.
C33_Witness ==
    /\ \E i \in DOMAIN surfaced : surfaced[i].req = 1
    /\ 1 \in DOMAIN event_map
    /\ handlers[event_map[1]].recv = <<>>
    /\ handlers[event_map[1]].stops = 0

C39_StoppedSlotHoldsMessage ==
    /\ \A hid \in DOMAIN handlers :
          LET h == handlers[hid] IN
          (h.kind = "request" /\ (h.stops > 0 \/ h.event)) => h.msg # None
    /\ \A i \in DOMAIN facades : facades[i].state # "failed"
    /\ last.exc # "AssertionError"

\* The handler of a call was stopped by the closing reply and the consumer
\* was returned that reply.
C39_Witness ==
    \E i \in DOMAIN facades :
        LET h == handlers[facades[i].ps_handler] IN
        /\ h.kind = "request"
        /\ h.stops = 1
        /\ h.msg.end_err
        /\ facades[i].state = "returned"
        /\ facades[i].yielded = <<h.msg>>

\* C35: a read() that got a header and then met an empty read or the end of
\* the transport among the body reads returns None without raising and
\* closes the transport; no handler gets the partial frame, nothing is
\* surfaced and the pending table is unchanged.  A read() that met an empty
\* or all-zero header returns None and does not close the transport.
C35_CutFrameClosesAndDeliversNothing ==
    /\ [][(IsRead /\ last'.what = "truncated") =>
            /\ last'.exc = "none"
            /\ last'.msg = None
            /\ ~is_connected'
            /\ handlers' = handlers
            /\ event_map' = event_map
            /\ surfaced' = surfaced]_vars
    /\ [][(IsRead /\ last'.what \in {"zero", "empty"}) =>
            /\ last'.exc = "none"
            /\ last'.msg = None
            /\ is_connected' = is_connected
            /\ handlers' = handlers
            /\ event_map' = event_map
            /\ surfaced' = surfaced]_vars

\* The first frame read was cut while call 1 was pending: the transport is
\* closed, the call is still pending and no handler has received anything.
C35_Witness ==
    /\ last.what = "truncated"
    /\ ~is_connected
    /\ 1 \in DOMAIN event_map
    /\ \A hid \in DOMAIN handlers : handlers[hid].recv = <<>>
    /\ surfaced = <<>>
    /\ nreads = 1

\* C36: while the transport reports not connected no call() goes through:
\* it raises, and no frame is written, the request counter keeps its value,
\* the pending table and the handlers are unchanged and no facade is made.
C36_CallRaisesWhenNotConnected ==
    /\ []((last.what = "call" /\ last.exc = "Exception") => ~is_connected)
    /\ [][~is_connected =>
            /\ output' = output
            /\ req_counter' = req_counter
            /\ event_map' = event_map
            /\ handlers' = handlers
            /\ facades' = facades
            /\ last'.exc \in {"Exception", "none"}]_vars

\* A call made after one call and a disconnect raised; the one frame, the one
\* entry and the counter at 2 are what the first call left.
C36_Witness ==
    /\ ~is_connected
    /\ last = Last("Exception", "call", None)
    /\ Len(output) = 2
    /\ DOMAIN event_map = {1}
    /\ req_counter = 2

\* C37: a call() with a type that is none of sync, async, source, sink and
\* duplex raises TypeError and leaves the connection as it was: no frame
\* written, the counter not advanced, no handler registered.
C37_UnknownTypeLeavesConnectionAlone ==
    [][last'.exc = "TypeError" =>
        /\ output' = output
        /\ req_counter' = req_counter
        /\ event_map' = event_map
        /\ handlers' = handlers]_vars

\* C38: two PacketStreams joined by a transport that delivers each write as
\* one read interoperate: the k-th read() of the receiver returns the k-th
\* frame the sender sent, with the same type, body, flags and req, whatever
\* the length of the body, and what is left in the transport starts at the
\* header of the next frame.
C38_JoinedStreamsInteroperate ==
    LET out == peers["a"].stream.output IN
    /\ loop = "running"
    /\ Len(surfaced) = nreads
    /\ 2 * nreads <= Len(out)
    /\ \A k \in 1..nreads :
         k <= Len(surfaced) /\ 2 * k <= Len(out) =>
           /\ surfaced[k].type = out[2 * k - 1].flags % 4
           /\ HeaderFlags(surfaced[k]) = out[2 * k - 1].flags
           /\ surfaced[k].req = out[2 * k - 1].req
           /\ data(surfaced[k]) = out[2 * k].bytes
    /\ 2 * nreads <= Len(out) => input = SubSeq(out, 2 * nreads + 1, Len(out))
====
